---------------------------- MODULE Spec2Model ----------------------------
(* A model of the DigitalOcean cloud provider of Kubernetes:                *)
(*   digitalocean.go          (src/unnamed/part_000)                        *)
(*   digitalocean_volumes.go  (src/pkg/cloudprovider/providers/digitalocean) *)
(* Go strings are modelled as sequences of one-character strings, so that   *)
(* strings.ToLower, strings.Contains, slicing, strconv.Itoa and             *)
(* strconv.Atoi are computed character by character.                        *)
EXTENDS Integers, Sequences, FiniteSets, TLC

VARIABLES
    volumes,    \* vendor block storage: volume ID -> [exists, DropletIDs]
    deleteLog,  \* every invocation of the vendor delete endpoint
    droplets,   \* vendor droplet listing (first page), in listing order
    do,         \* the *DigitalOcean returned by newDigitalOcean, or NoProvider
    built,      \* the local selfDOInstance of newDigitalOcean (part_000:118)
    files,      \* /dev/disk/by-id/: [readable, names], names sorted by filename
    config,     \* the lines of the --cloud-config file
    inflight,   \* per concurrent caller: its DeleteVolume call between check and delete
    last        \* the last call: its name, arguments and results

vars == <<volumes, deleteLog, droplets, do, built, files, config, inflight, last>>

-----------------------------------------------------------------------------
(* Go strings *)

nil == "nil"

Range(s) == {s[i] : i \in 1..Len(s)}

UpperChars == <<"A","B","C","D","E","F","G","H","I","J","K","L","M",
                "N","O","P","Q","R","S","T","U","V","W","X","Y","Z">>

LowerChars == <<"a","b","c","d","e","f","g","h","i","j","k","l","m",
                "n","o","p","q","r","s","t","u","v","w","x","y","z">>

\* unicode.ToLower on one character
LowerChar(c) ==
    IF \E i \in 1..Len(UpperChars) : UpperChars[i] = c
    THEN LowerChars[CHOOSE i \in 1..Len(UpperChars) : UpperChars[i] = c]
    ELSE c

\* strings.ToLower
ToLower(s) == [i \in 1..Len(s) |-> LowerChar(s[i])]

\* strings.Contains(s, substr)
Contains(s, substr) ==
    \E i \in 1..(Len(s) - Len(substr) + 1) :
        SubSeq(s, i, i + Len(substr) - 1) = substr

\* strings.HasPrefix(s, prefix)
HasPrefix(s, prefix) ==
    /\ Len(s) >= Len(prefix)
    /\ SubSeq(s, 1, Len(prefix)) = prefix

DigitChars == <<"0","1","2","3","4","5","6","7","8","9">>

IsDigit(c) == \E i \in 1..10 : DigitChars[i] = c

DigitValue(c) == (CHOOSE i \in 1..10 : DigitChars[i] = c) - 1

RECURSIVE ItoaNat(_)
ItoaNat(n) ==
    IF n < 10 THEN <<DigitChars[n + 1]>>
    ELSE ItoaNat(n \div 10) \o <<DigitChars[(n % 10) + 1]>>

\* strconv.Itoa
Itoa(n) == IF n < 0 THEN <<"-">> \o ItoaNat(-n) ELSE ItoaNat(n)

RECURSIVE DigitsValue(_)
DigitsValue(s) ==
    IF Len(s) = 0 THEN 0
    ELSE 10 * DigitsValue(SubSeq(s, 1, Len(s) - 1)) + DigitValue(s[Len(s)])

ErrSyntax == "strconv.Atoi: invalid syntax"

\* strconv.Atoi: an optional sign, then one or more decimal digits.
\* (The bodies of the model are far shorter than the 19 digits an int holds.)
Atoi(s) ==
    LET signed == Len(s) > 0 /\ s[1] \in {"+", "-"}
        digits == IF signed THEN SubSeq(s, 2, Len(s)) ELSE s
    IN  IF Len(digits) = 0 \/ \E i \in 1..Len(digits) : ~IsDigit(digits[i])
        THEN [value |-> 0, err |-> ErrSyntax]
        ELSE [value |-> IF signed /\ s[1] = "-" THEN -DigitsValue(digits)
                        ELSE DigitsValue(digits),
              err |-> nil]

-----------------------------------------------------------------------------
(* Volume lifecycle adapter: digitalocean_volumes.go *)

VolumeIDs == {"vol-a", "vol-b"}

InstanceIDs == {1, 2}

\* longest volumeIDs slice handed to DisksAreAttached
MaxVolumeIDs == 2

ErrTransport == "transport error"
ErrVolumeNotFound == "volume not found"
VolumeInUse == "DeletedVolumeInUseError"

NoVolume == [exists |-> FALSE, DropletIDs |-> {}]

\* do.provider.Storage.GetVolume: the vendor's answer, or an error
\* (the request fails, or the vendor knows no such volume)
StorageGetVolume(vols, volumeID, fails) ==
    IF fails THEN [volume |-> NoVolume, err |-> ErrTransport]
    ELSE IF ~vols[volumeID].exists THEN [volume |-> NoVolume, err |-> ErrVolumeNotFound]
    ELSE [volume |-> vols[volumeID], err |-> nil]

volumeIsUsedNever(vols, volumeID, fails) ==
    LET got == StorageGetVolume(vols, volumeID, fails)
    IN  [used |-> FALSE, err |-> got.err]

volumeIsUsed(vols, volumeID, fails) ==
    LET got == StorageGetVolume(vols, volumeID, fails)
    IN  IF got.err # nil THEN [used |-> FALSE, err |-> got.err]
        ELSE IF Cardinality(got.volume.DropletIDs) > 0 THEN [used |-> TRUE, err |-> nil]
        ELSE [used |-> FALSE, err |-> nil]

getVolume(vols, volumeID, fails) == StorageGetVolume(vols, volumeID, fails)

\* do.provider.Storage.CreateVolume: the vendor allots an ID it does not use yet
CreateVolume ==
    /\ \E fails \in BOOLEAN :
           \/ /\ fails
              /\ last' = [op |-> "CreateVolume", volumeName |-> "", err |-> ErrTransport]
              /\ UNCHANGED <<volumes, deleteLog>>
           \/ /\ ~fails
              /\ \E id \in VolumeIDs :
                   /\ ~volumes[id].exists
                   /\ volumes' = [volumes EXCEPT ![id] = [exists |-> TRUE, DropletIDs |-> {}]]
                   /\ last' = [op |-> "CreateVolume", volumeName |-> id, err |-> nil]
              /\ UNCHANGED deleteLog
    /\ UNCHANGED <<droplets, do, built, files, config, inflight>>

\* do.provider.Storage.DeleteVolume: the vendor's storage after the call, and its error
StorageDeleteVolume(vols, volumeID, fails) ==
    IF fails THEN [volumes |-> vols, err |-> ErrTransport]
    ELSE IF ~vols[volumeID].exists THEN [volumes |-> vols, err |-> ErrVolumeNotFound]
    ELSE [volumes |-> [vols EXCEPT ![volumeID] = NoVolume], err |-> nil]

DeleteVolume ==
    /\ \E volumeID \in VolumeIDs, getFails \in BOOLEAN, deleteFails \in BOOLEAN :
           LET chk == volumeIsUsed(volumes, volumeID, getFails)
               call == [op |-> "DeleteVolume", volumeID |-> volumeID, getFails |-> getFails,
                        pre |-> volumes]
               del == StorageDeleteVolume(volumes, volumeID, deleteFails)
           IN  IF chk.err # nil
               THEN /\ last' = call @@ [err |-> chk.err, called |-> FALSE]
                    /\ UNCHANGED <<volumes, deleteLog>>
               ELSE IF chk.used
               THEN /\ last' = call @@ [err |-> VolumeInUse, called |-> FALSE]
                    /\ UNCHANGED <<volumes, deleteLog>>
               ELSE /\ deleteLog' = deleteLog \cup
                           {[volumeID |-> volumeID, DropletIDs |-> volumes[volumeID].DropletIDs]}
                    /\ volumes' = del.volumes
                    /\ last' = call @@ [err |-> del.err, called |-> TRUE]
    /\ UNCHANGED <<droplets, do, built, files, config, inflight>>

AttachVolume ==
    /\ \E instanceID \in InstanceIDs, volumeID \in VolumeIDs, fails \in BOOLEAN :
           IF fails \/ ~volumes[volumeID].exists
           THEN /\ last' = [op |-> "AttachVolume", volumeID |-> volumeID, instanceID |-> instanceID,
                            ret |-> "", err |-> IF fails THEN ErrTransport ELSE ErrVolumeNotFound]
                /\ UNCHANGED <<volumes, deleteLog>>
           ELSE /\ volumes' = [volumes EXCEPT ![volumeID].DropletIDs = @ \cup {instanceID}]
                /\ last' = [op |-> "AttachVolume", volumeID |-> volumeID, instanceID |-> instanceID,
                            ret |-> volumeID, err |-> nil]
                /\ UNCHANGED deleteLog
    /\ UNCHANGED <<droplets, do, built, files, config, inflight>>

DetachVolume ==
    /\ \E instanceID \in InstanceIDs, volumeID \in VolumeIDs, fails \in BOOLEAN :
           IF fails \/ ~volumes[volumeID].exists
           THEN /\ last' = [op |-> "DetachVolume", volumeID |-> volumeID, instanceID |-> instanceID,
                            err |-> IF fails THEN ErrTransport ELSE ErrVolumeNotFound]
                /\ UNCHANGED <<volumes, deleteLog>>
           ELSE /\ volumes' = [volumes EXCEPT ![volumeID].DropletIDs = {}]
                /\ last' = [op |-> "DetachVolume", volumeID |-> volumeID, instanceID |-> instanceID,
                            err |-> nil]
                /\ UNCHANGED deleteLog
    /\ UNCHANGED <<droplets, do, built, files, config, inflight>>

DiskIsAttached ==
    /\ \E volumeID \in VolumeIDs, instanceID \in InstanceIDs, fails \in BOOLEAN :
           LET got == getVolume(volumes, volumeID, fails)
           IN  /\ last' = [op |-> "DiskIsAttached", volumeID |-> volumeID, instanceID |-> instanceID,
                           attached |-> IF got.err # nil THEN FALSE
                                        ELSE IF Cardinality(got.volume.DropletIDs) = 0 THEN FALSE
                                        ELSE instanceID \in got.volume.DropletIDs,
                           err |-> got.err]
               /\ UNCHANGED <<volumes, deleteLog>>
    /\ UNCHANGED <<droplets, do, built, files, config, inflight>>

SeqsUpTo(S, n) == UNION {[1..k -> S] : k \in 0..n}

RECURSIVE DisksAreAttachedLoop(_, _, _, _, _, _)
\* the second loop of DisksAreAttached, from position i on
DisksAreAttachedLoop(vols, volumeIDs, fails, instanceID, i, attached) ==
    IF i > Len(volumeIDs) THEN attached
    ELSE LET got == getVolume(vols, volumeIDs[i], fails[i])
             next == IF got.err # nil THEN attached
                     ELSE IF instanceID \in got.volume.DropletIDs
                          THEN [attached EXCEPT ![volumeIDs[i]] = TRUE]
                          ELSE attached
         IN  DisksAreAttachedLoop(vols, volumeIDs, fails, instanceID, i + 1, next)

DisksAreAttachedNoInit(vols, volumeIDs, fails, instanceID) ==
    LET hit == {i \in 1..Len(volumeIDs) :
                    LET got == getVolume(vols, volumeIDs[i], fails[i])
                    IN  got.err = nil /\ instanceID \in got.volume.DropletIDs}
    IN  [attached |-> [v \in {volumeIDs[i] : i \in hit} |-> TRUE], err |-> nil]

\* the value DisksAreAttached returns; fails[i] is whether the i-th lookup fails
DisksAreAttachedResult(vols, volumeIDs, fails, instanceID) ==
    [attached |-> DisksAreAttachedLoop(vols, volumeIDs, fails, instanceID, 1,
                                       [v \in Range(volumeIDs) |-> FALSE]),
     err |-> nil]

DisksAreAttached ==
    /\ \E volumeIDs \in SeqsUpTo(VolumeIDs, MaxVolumeIDs), instanceID \in InstanceIDs :
           \E fails \in [1..Len(volumeIDs) -> BOOLEAN] :
               LET r == DisksAreAttachedResult(volumes, volumeIDs, fails, instanceID)
               IN  /\ last' = [op |-> "DisksAreAttached", volumeIDs |-> volumeIDs,
                               instanceID |-> instanceID, fails |-> fails, pre |-> volumes,
                               attached |-> r.attached, err |-> r.err]
                   /\ UNCHANGED <<volumes, deleteLog>>
    /\ UNCHANGED <<droplets, do, built, files, config, inflight>>

\* a nil *doInstance and a nil *DigitalOcean
NoInstance == [isNil |-> TRUE, dropletID |-> 0, region |-> <<>>]
NoProvider == [isNil |-> TRUE, region |-> <<>>, selfDOInstance |-> NoInstance]
NoCall == [op |-> "none"]

InitVolumes ==
    /\ volumes = [v \in VolumeIDs |-> NoVolume]
    /\ deleteLog = {}
    /\ droplets = <<>>
    /\ do = NoProvider
    /\ built = NoInstance
    /\ files = [readable |-> TRUE, names |-> <<>>]
    /\ config = <<>>
    /\ inflight = <<>>
    /\ last = NoCall

NextVolumes ==
    \/ CreateVolume
    \/ DeleteVolume
    \/ AttachVolume
    \/ DetachVolume
    \/ DiskIsAttached
    \/ DisksAreAttached

SpecVolumes == InitVolumes /\ [][NextVolumes]_vars

-----------------------------------------------------------------------------
(* Claims about the volume adapter, checked under SpecVolumes *)

DeleteOfAttached ==
    /\ last.op = "DeleteVolume"
    /\ last.pre[last.volumeID].DropletIDs # {}

\* C1, as stated: DeleteVolume on a volume whose attachment set is non-empty
\* always returns VolumeInUse, never invokes the vendor delete endpoint, and
\* the volume still exists afterwards.
C1_DeleteAttachedAlwaysVolumeInUse ==
    DeleteOfAttached =>
        /\ last.err = VolumeInUse
        /\ ~last.called
        /\ volumes[last.volumeID].exists

\* C1, amended: DeleteVolume on a volume whose attachment set is non-empty
\* returns VolumeInUse when the attachment lookup succeeds and the lookup's
\* own error when it fails; in both cases the vendor delete endpoint is not
\* invoked (no invocation was ever made on an attached volume) and the volume
\* is left as it was.
C1_DeleteAttachedNeverDeletes ==
    /\ \A e \in deleteLog : e.DropletIDs = {}
    /\ DeleteOfAttached =>
           /\ last.err = (IF last.getFails THEN ErrTransport ELSE VolumeInUse)
           /\ ~last.called
           /\ volumes = last.pre
           /\ volumes[last.volumeID].exists

C1_Witness ==
    /\ DeleteOfAttached
    /\ last.err = VolumeInUse
    /\ volumes[last.volumeID].DropletIDs # {}

\* C4, as stated: DisksAreAttached returns no error and a map with exactly
\* one key per requested volume ID; a volume whose lookup errors is mapped to
\* false, every other volume to true iff instanceID is in its attachment set.
C4_FailedLookupMapsToFalse ==
    last.op = "DisksAreAttached" =>
        /\ last.err = nil
        /\ DOMAIN last.attached = Range(last.volumeIDs)
        /\ \A i \in 1..Len(last.volumeIDs) :
              LET id == last.volumeIDs[i]
              IN  last.attached[id] =
                    IF last.fails[i] \/ ~last.pre[id].exists THEN FALSE
                    ELSE last.instanceID \in last.pre[id].DropletIDs

\* C4, amended: DisksAreAttached returns no error and a map with exactly one
\* key per requested volume ID; an ID is mapped to true iff at least one of
\* its lookups succeeds and instanceID is in its attachment set, so an ID all
\* of whose lookups error is mapped to false.
C4_AttachedIffSomeLookupFindsIt ==
    last.op = "DisksAreAttached" =>
        /\ last.err = nil
        /\ DOMAIN last.attached = Range(last.volumeIDs)
        /\ \A id \in Range(last.volumeIDs) :
              last.attached[id] <=>
                 \E i \in 1..Len(last.volumeIDs) :
                    /\ last.volumeIDs[i] = id
                    /\ ~last.fails[i]
                    /\ last.pre[id].exists
                    /\ last.instanceID \in last.pre[id].DropletIDs

C4_Witness ==
    /\ last.op = "DisksAreAttached"
    /\ \E i, j \in 1..Len(last.volumeIDs) :
          /\ last.volumeIDs[i] # last.volumeIDs[j]
          /\ last.fails[i] /\ ~last.fails[j]
          /\ last.instanceID \in last.pre[last.volumeIDs[i]].DropletIDs
          /\ last.attached[last.volumeIDs[i]] = FALSE
          /\ last.attached[last.volumeIDs[j]] = TRUE

-----------------------------------------------------------------------------
(* Instance directory and capability surface: digitalocean.go *)

ErrNotFound == "Failed to find object"
InstanceNotFound == "instance not found"
errNoNetworks == "no networks have been defined"

S_Web1 == <<"W", "e", "b", "-", "1">>
S_web1 == <<"w", "e", "b", "-", "1">>
S_WEB1 == <<"W", "E", "B", "-", "1">>
S_db1 == <<"d", "b", "-", "1">>
S_nope == <<"n", "o", "p", "e">>
S_eb == <<"e", "b", "-">>
S_10_0_0_5 == <<"1", "0", ".", "0", ".", "0", ".", "5">>
S_10_0_0_6 == <<"1", "0", ".", "0", ".", "0", ".", "6">>
S_1_2_3_4 == <<"1", ".", "2", ".", "3", ".", "4">>
S_1_2_3_5 == <<"1", ".", "2", ".", "3", ".", "5">>
S_2gb == <<"2", "g", "b">>
S_512mb == <<"5", "1", "2", "m", "b">>

\* godo.Droplet values the vendor may list. Networks is whether the Networks
\* field is non-nil; private/public are the addresses of the v4 interfaces of
\* that type, the empty string when the droplet has no such interface.
DropletUniverse ==
    { [ID |-> 101, Name |-> S_Web1, Networks |-> TRUE,
       private |-> S_10_0_0_5, public |-> S_1_2_3_4, SizeSlug |-> S_2gb],
      [ID |-> 7, Name |-> S_10_0_0_5, Networks |-> TRUE,
       private |-> S_10_0_0_6, public |-> S_1_2_3_5, SizeSlug |-> S_512mb],
      [ID |-> 12, Name |-> S_web1, Networks |-> FALSE,
       private |-> <<>>, public |-> <<>>, SizeSlug |-> S_2gb],
      [ID |-> 3450, Name |-> S_db1, Networks |-> TRUE,
       private |-> <<>>, public |-> S_10_0_0_5, SizeSlug |-> S_512mb] }

\* node names, hostnames and filters the orchestrator asks about
QueryNames == {S_web1, S_WEB1, S_10_0_0_5, S_1_2_3_4, S_nope, S_eb, <<>>}

\* longest droplet listing
MaxDroplets == 2

Listings ==
    {l \in SeqsUpTo(DropletUniverse, MaxDroplets) :
        \A i, j \in 1..Len(l) : i # j => l[i] # l[j]}

\* godo's (*Droplet).PrivateIPv4 and PublicIPv4
PrivateIPv4(d) ==
    IF ~d.Networks THEN [ip |-> <<>>, err |-> errNoNetworks]
    ELSE [ip |-> d.private, err |-> nil]

PublicIPv4(d) ==
    IF ~d.Networks THEN [ip |-> <<>>, err |-> errNoNetworks]
    ELSE [ip |-> d.public, err |-> nil]

NameMatches(d, name) == ToLower(name) = ToLower(d.Name)
PrivateMatches(d, name) == PrivateIPv4(d).err = nil /\ name = PrivateIPv4(d).ip
PublicMatches(d, name) == PublicIPv4(d).err = nil /\ name = PublicIPv4(d).ip

RECURSIVE findDropletLoop(_, _, _)
\* the loop of findDroplet from index i on: the index of the droplet returned, or 0
findDropletLoop(ds, name, i) ==
    IF i > Len(ds) THEN 0
    ELSE IF NameMatches(ds[i], name) THEN i
    ELSE IF PrivateMatches(ds[i], name) THEN i
    ELSE IF PublicMatches(ds[i], name) THEN i
    ELSE findDropletLoop(ds, name, i + 1)

findDropletByPriority(ds, listFails, name) ==
    LET idx == 1..Len(ds)
        byName == {i \in idx : NameMatches(ds[i], name)}
        byPrivate == {i \in idx : PrivateMatches(ds[i], name)}
        byPublic == {i \in idx : PublicMatches(ds[i], name)}
        pick == IF byName # {} THEN byName ELSE IF byPrivate # {} THEN byPrivate ELSE byPublic
    IN  IF listFails THEN [at |-> 0, err |-> ErrTransport]
        ELSE IF pick = {} THEN [at |-> 0, err |-> ErrNotFound]
        ELSE [at |-> CHOOSE i \in pick : \A j \in pick : i <= j, err |-> nil]

\* findDroplet: at is the index in the listing of the droplet pointed to (0 for nil)
findDroplet(ds, listFails, name) ==
    LET at == findDropletLoop(ds, name, 1)
    IN  IF listFails THEN [at |-> 0, err |-> ErrTransport]
        ELSE IF at = 0 THEN [at |-> 0, err |-> ErrNotFound]
        ELSE [at |-> at, err |-> nil]

RECURSIVE findDropletByFilterLoop(_, _, _)
findDropletByFilterLoop(ds, filter, i) ==
    IF i > Len(ds) THEN <<>>
    ELSE (IF Contains(ds[i].Name, filter) THEN <<ds[i].Name>> ELSE <<>>)
         \o findDropletByFilterLoop(ds, filter, i + 1)

findDropletByFilter(ds, listFails, filter) ==
    IF listFails THEN [list |-> <<>>, err |-> ErrTransport]
    ELSE [list |-> findDropletByFilterLoop(ds, filter, 1), err |-> nil]

NodeAddressesNormalized(ds, listFails, name) ==
    LET f == findDroplet(ds, listFails, name)
    IN  IF f.err # nil THEN [ret |-> <<>>, err |-> InstanceNotFound]
        ELSE IF PrivateIPv4(ds[f.at]).err # nil
        THEN [ret |-> <<>>, err |-> PrivateIPv4(ds[f.at]).err]
        ELSE IF PublicIPv4(ds[f.at]).err # nil
        THEN [ret |-> <<>>, err |-> PublicIPv4(ds[f.at]).err]
        ELSE [ret |-> << [Type |-> "InternalIP", Address |-> PrivateIPv4(ds[f.at]).ip],
                         [Type |-> "LegacyHostIP", Address |-> PrivateIPv4(ds[f.at]).ip],
                         [Type |-> "ExternalIP", Address |-> PublicIPv4(ds[f.at]).ip] >>,
              err |-> nil]

NodeAddressesResult(ds, listFails, name) ==
    LET f == findDroplet(ds, listFails, name)
    IN  IF f.err # nil THEN [ret |-> <<>>, err |-> f.err]
        ELSE IF PrivateIPv4(ds[f.at]).err # nil
        THEN [ret |-> <<>>, err |-> PrivateIPv4(ds[f.at]).err]
        ELSE IF PublicIPv4(ds[f.at]).err # nil
        THEN [ret |-> <<>>, err |-> PublicIPv4(ds[f.at]).err]
        ELSE [ret |-> << [Type |-> "InternalIP", Address |-> PrivateIPv4(ds[f.at]).ip],
                         [Type |-> "LegacyHostIP", Address |-> PrivateIPv4(ds[f.at]).ip],
                         [Type |-> "ExternalIP", Address |-> PublicIPv4(ds[f.at]).ip] >>,
              err |-> nil]

ExternalIDRaw(ds, listFails, nodeName) ==
    LET f == findDroplet(ds, listFails, nodeName)
    IN  IF f.err # nil THEN [ret |-> <<>>, err |-> f.err]
        ELSE [ret |-> Itoa(ds[f.at].ID), err |-> nil]

ExternalIDResult(ds, listFails, nodeName) ==
    LET f == findDroplet(ds, listFails, nodeName)
    IN  IF f.err # nil THEN [ret |-> <<>>, err |-> InstanceNotFound]
        ELSE [ret |-> Itoa(ds[f.at].ID), err |-> nil]

InstanceIDResult(ds, listFails, nodeName) ==
    LET f == findDroplet(ds, listFails, nodeName)
    IN  IF f.err # nil THEN [ret |-> <<>>, err |-> InstanceNotFound]
        ELSE [ret |-> Itoa(ds[f.at].ID), err |-> nil]

InstanceTypeResult(ds, listFails, nodeName) ==
    LET f == findDroplet(ds, listFails, nodeName)
    IN  IF f.err # nil THEN [ret |-> <<>>, err |-> InstanceNotFound]
        ELSE [ret |-> ds[f.at].SizeSlug, err |-> nil]

ListResult(ds, listFails, filter) ==
    LET f == findDropletByFilter(ds, listFails, filter)
    IN  IF f.err # nil THEN [ret |-> <<>>, err |-> InstanceNotFound]
        ELSE [ret |-> f.list, err |-> nil]

CurrentNodeNameResult(ds, listFails, hostname) ==
    LET f == findDroplet(ds, listFails, hostname)
    IN  IF f.err # nil THEN [ret |-> <<>>, err |-> InstanceNotFound]
        ELSE [ret |-> ToLower(ds[f.at].Name), err |-> nil]

\* what a call leaves in last: the method, its argument, whether the
\* Droplets.List request failed, and the method's two results
Called(op, name, listFails, r) ==
    [op |-> op, name |-> name, listFails |-> listFails, ret |-> r.ret, err |-> r.err]

instanceVars == <<volumes, deleteLog, droplets, do, built, files, config, inflight>>

FindDroplet ==
    /\ \E name \in QueryNames, listFails \in BOOLEAN :
           LET f == findDroplet(droplets, listFails, name)
           IN  last' = Called("findDroplet", name, listFails, [ret |-> f.at, err |-> f.err])
    /\ UNCHANGED instanceVars

NodeAddresses ==
    /\ \E name \in QueryNames, listFails \in BOOLEAN :
           last' = Called("NodeAddresses", name, listFails,
                          NodeAddressesResult(droplets, listFails, name))
    /\ UNCHANGED instanceVars

ExternalID ==
    /\ \E name \in QueryNames, listFails \in BOOLEAN :
           last' = Called("ExternalID", name, listFails,
                          ExternalIDResult(droplets, listFails, name))
    /\ UNCHANGED instanceVars

InstanceID ==
    /\ \E name \in QueryNames, listFails \in BOOLEAN :
           last' = Called("InstanceID", name, listFails,
                          InstanceIDResult(droplets, listFails, name))
    /\ UNCHANGED instanceVars

InstanceType ==
    /\ \E name \in QueryNames, listFails \in BOOLEAN :
           last' = Called("InstanceType", name, listFails,
                          InstanceTypeResult(droplets, listFails, name))
    /\ UNCHANGED instanceVars

List ==
    /\ \E filter \in QueryNames, listFails \in BOOLEAN :
           last' = Called("List", filter, listFails,
                          ListResult(droplets, listFails, filter))
    /\ UNCHANGED instanceVars

CurrentNodeName ==
    /\ \E hostname \in QueryNames, listFails \in BOOLEAN :
           last' = Called("CurrentNodeName", hostname, listFails,
                          CurrentNodeNameResult(droplets, listFails, hostname))
    /\ UNCHANGED instanceVars

InitInstances ==
    /\ volumes = [v \in VolumeIDs |-> NoVolume]
    /\ deleteLog = {}
    /\ droplets \in Listings
    /\ do = NoProvider
    /\ built = NoInstance
    /\ files = [readable |-> TRUE, names |-> <<>>]
    /\ config = <<>>
    /\ inflight = <<>>
    /\ last = NoCall

NextInstances ==
    \/ FindDroplet
    \/ NodeAddresses
    \/ ExternalID
    \/ InstanceID
    \/ InstanceType
    \/ List
    \/ CurrentNodeName

SpecInstances == InitInstances /\ [][NextInstances]_vars

-----------------------------------------------------------------------------
(* Claims about the instance directory, checked under SpecInstances *)

\* the droplet at index i of the listing meets one of findDroplet's criteria
AnyMatch(i, name) ==
    \/ ToLower(name) = ToLower(droplets[i].Name)
    \/ droplets[i].Networks /\ name = droplets[i].private
    \/ droplets[i].Networks /\ name = droplets[i].public

NoMatch(name) == \A i \in 1..Len(droplets) : ~AnyMatch(i, name)

\* the error findDroplet gives for the last call's argument, nil when it finds one
LookupError ==
    IF last.listFails THEN ErrTransport
    ELSE IF NoMatch(last.name) THEN ErrNotFound
    ELSE nil

\* C3, as stated: findDroplet selects by criterion priority over the whole
\* listing: a droplet whose name equals name case-insensitively if there is
\* one, otherwise one whose private IPv4 equals name, otherwise one whose
\* public IPv4 equals name; ErrNotFound exactly when no listed droplet
\* matches any criterion.
C3_SelectsByCriterionPriority ==
    (last.op = "findDroplet" /\ ~last.listFails) =>
        LET n == last.name
            idx == 1..Len(droplets)
            byName(i) == ToLower(n) = ToLower(droplets[i].Name)
            byPrivate(i) == droplets[i].Networks /\ droplets[i].private = n
            byPublic(i) == droplets[i].Networks /\ droplets[i].public = n
            anyName == \E i \in idx : byName(i)
            anyPrivate == \E i \in idx : byPrivate(i)
            anyPublic == \E i \in idx : byPublic(i)
        IN  /\ anyName => (last.err = nil /\ byName(last.ret))
            /\ (~anyName /\ anyPrivate) => (last.err = nil /\ byPrivate(last.ret))
            /\ (~anyName /\ ~anyPrivate /\ anyPublic) => (last.err = nil /\ byPublic(last.ret))
            /\ (last.err = ErrNotFound) <=> (~anyName /\ ~anyPrivate /\ ~anyPublic)

\* C3, amended: findDroplet returns the first droplet in listing order that
\* meets any of the three criteria (name case-insensitively, the value of
\* PrivateIPv4(), the value of PublicIPv4()); it returns ErrNotFound exactly
\* when the listing succeeded and no listed droplet meets any criterion, and
\* the listing's own error when the listing failed.
C3_FirstListedMatchWins ==
    last.op = "findDroplet" =>
        IF last.listFails THEN last.err = ErrTransport /\ last.ret = 0
        ELSE IF NoMatch(last.name) THEN last.err = ErrNotFound /\ last.ret = 0
        ELSE /\ last.err = nil
             /\ last.ret \in 1..Len(droplets)
             /\ AnyMatch(last.ret, last.name)
             /\ \A j \in 1..(last.ret - 1) : ~AnyMatch(j, last.name)

\* a later droplet matches by name, an earlier one by address, and the earlier is returned
C3_Witness ==
    /\ last.op = "findDroplet"
    /\ last.err = nil
    /\ ToLower(last.name) # ToLower(droplets[last.ret].Name)
    /\ \E j \in (last.ret + 1)..Len(droplets) :
          ToLower(last.name) = ToLower(droplets[j].Name)

\* C6, as stated: for NodeAddresses and InstanceType a failed instance lookup
\* (ErrNotFound or a listing error) is returned to the caller unchanged.
C6_LookupErrorsPassThrough ==
    (last.op \in {"NodeAddresses", "InstanceType"} /\ LookupError # nil) =>
        last.err = LookupError

\* C6, amended: NodeAddresses returns a failed instance lookup's error
\* unchanged; InstanceType replaces it by InstanceNotFound.
C6_OnlyNodeAddressesPassesThrough ==
    /\ (last.op = "NodeAddresses" /\ LookupError # nil) =>
          (last.err = LookupError /\ last.err # InstanceNotFound /\ last.ret = <<>>)
    /\ (last.op = "InstanceType" /\ LookupError # nil) =>
          (last.err = InstanceNotFound /\ last.ret = <<>>)

C6_Witness ==
    /\ last.op = "NodeAddresses"
    /\ Len(droplets) > 0
    /\ last.err = ErrNotFound

\* C7: ExternalID, InstanceID, CurrentNodeName and List return
\* InstanceNotFound whenever the lookup fails (no match, or a listing error)
\* and never the raw error; on success ExternalID and InstanceID return the
\* matched droplet's ID in decimal, CurrentNodeName the matched droplet's name
\* lower-cased, and List exactly the listed names containing the filter as a
\* case-sensitive substring.
C7_NodeIdentityNormalizesErrors ==
    /\ last.op \in {"ExternalID", "InstanceID", "CurrentNodeName"} =>
          IF LookupError # nil THEN last.err = InstanceNotFound
          ELSE /\ last.err = nil
               /\ \E i \in 1..Len(droplets) :
                     /\ AnyMatch(i, last.name)
                     /\ IF last.op = "CurrentNodeName"
                        THEN /\ Len(last.ret) = Len(droplets[i].Name)
                             /\ \A k \in 1..Len(last.ret) :
                                   /\ last.ret[k] \notin Range(UpperChars)
                                   /\ last.ret[k] = LowerChar(droplets[i].Name[k])
                        ELSE Atoi(last.ret) = [value |-> droplets[i].ID, err |-> nil]
    /\ last.op = "List" =>
          IF last.listFails THEN last.err = InstanceNotFound
          ELSE LET hits == {i \in 1..Len(droplets) :
                              \E k \in 1..(Len(droplets[i].Name) - Len(last.name) + 1) :
                                 \A c \in 1..Len(last.name) :
                                    droplets[i].Name[k + c - 1] = last.name[c]}
               IN  /\ last.err = nil
                   /\ Len(last.ret) = Cardinality(hits)
                   /\ Range(last.ret) = {droplets[i].Name : i \in hits}

\* a hostname in another case resolves to the lower-cased name of the droplet
C7_Witness ==
    /\ last.op = "CurrentNodeName"
    /\ last.err = nil
    /\ last.name = S_WEB1
    /\ last.ret = S_web1
    /\ \E i \in 1..Len(droplets) : droplets[i].Name = S_Web1

-----------------------------------------------------------------------------
(* Provider construction and capability accessors: digitalocean.go *)

S_nyc1 == <<"n", "y", "c", "1">>
S_ams3 == <<"a", "m", "s", "3">>
S_123456 == <<"1", "2", "3", "4", "5", "6">>
S_4217 == <<"4", "2", "1", "7">>
S_minus7 == <<"-", "7">>
S_4x == <<"4", "x">>

ErrAccount == "account liveness check failed"
ErrMetadata == "metadata fetch failed"
ErrRead == "unexpected EOF"

\* Config values handed to newDigitalOcean
Configs ==
    { [ApiKey |-> S_123456, Region |-> S_nyc1],
      [ApiKey |-> <<>>, Region |-> <<>>] }

\* bodies the metadata service may answer with
RegionBodies == {S_nyc1, S_ams3}
IDBodies == {S_4217, S_minus7, S_4x, <<>>}

\* one metadata endpoint during one construction: whether http.Get fails, the
\* body served, whether reading the body fails and after how many bytes
Fetches(bodies) ==
    {f \in [getFails : BOOLEAN, body : bodies, readFails : BOOLEAN, readLen : UNION {0..Len(b) : b \in bodies}] :
        /\ f.readLen <= Len(f.body)
        /\ ~f.readFails => f.readLen = Len(f.body)
        /\ f.getFails => (~f.readFails /\ f.readLen = Len(f.body))}

\* ioutil.ReadAll(resp.Body): the bytes read, and the error that ended the reading
ReadAll(f) ==
    IF f.readFails THEN [data |-> SubSeq(f.body, 1, f.readLen), err |-> ErrRead]
    ELSE [data |-> f.body, err |-> nil]

\* buildSelfDOInstance: the *doInstance and the error returned, or a panic
buildSelfDOInstance(d, region, id) ==
    IF d.selfDOInstance # NoInstance
    THEN [self |-> NoInstance, err |-> nil, panicked |-> TRUE]
    ELSE IF region.getFails
    THEN [self |-> NoInstance, err |-> ErrMetadata, panicked |-> FALSE]
    ELSE LET dropletRegion == ReadAll(region).data
         IN  IF id.getFails
             THEN [self |-> NoInstance, err |-> ErrMetadata, panicked |-> FALSE]
             ELSE LET dropletID == ReadAll(id).data
                      intDropletID == Atoi(dropletID)
                  IN  IF intDropletID.err # nil
                      THEN [self |-> NoInstance, err |-> intDropletID.err, panicked |-> FALSE]
                      ELSE [self |-> [isNil |-> FALSE,
                                      dropletID |-> intDropletID.value,
                                      region |-> dropletRegion],
                            err |-> nil, panicked |-> FALSE]

\* newDigitalOcean: the provider returned (NoProvider for nil), the error, and
\* the value of its local variable selfDOInstance
newDigitalOcean(cfg, accountFails, region, id) ==
    IF accountFails THEN [do |-> NoProvider, err |-> ErrAccount, self |-> NoInstance]
    ELSE LET d == [isNil |-> FALSE, region |-> cfg.Global.Region,
                      selfDOInstance |-> NoInstance]
             b == buildSelfDOInstance(d, region, id)
         IN  IF b.err # nil THEN [do |-> NoProvider, err |-> b.err, self |-> NoInstance]
             ELSE [do |-> d, err |-> nil, self |-> b.self]

NewDigitalOcean ==
    /\ \E global \in Configs, accountFails \in BOOLEAN,
          region \in Fetches(RegionBodies), id \in Fetches(IDBodies) :
           LET r == newDigitalOcean([Global |-> global], accountFails, region, id)
           IN  /\ do' = r.do
               /\ built' = r.self
               /\ last' = [op |-> "newDigitalOcean", cfg |-> [Global |-> global],
                           accountFails |-> accountFails, region |-> region, id |-> id,
                           err |-> r.err]
    /\ UNCHANGED <<volumes, deleteLog, droplets, files, config, inflight>>

providerVars == <<volumes, deleteLog, droplets, do, built, files, config, inflight>>

Clusters ==
    /\ do # NoProvider
    /\ last' = [op |-> "Clusters", impl |-> NoProvider, supported |-> FALSE]
    /\ UNCHANGED providerVars

Instances ==
    /\ do # NoProvider
    /\ last' = [op |-> "Instances", impl |-> do, supported |-> TRUE]
    /\ UNCHANGED providerVars

LoadBalancer ==
    /\ do # NoProvider
    /\ last' = [op |-> "LoadBalancer", impl |-> NoProvider, supported |-> FALSE]
    /\ UNCHANGED providerVars

Zones ==
    /\ do # NoProvider
    /\ last' = [op |-> "Zones", impl |-> do, supported |-> FALSE]
    /\ UNCHANGED providerVars

Routes ==
    /\ do # NoProvider
    /\ last' = [op |-> "Routes", impl |-> NoProvider, supported |-> FALSE]
    /\ UNCHANGED providerVars

\* do.selfDOInstance.dropletID with do.selfDOInstance nil is a nil pointer
\* dereference: the call panics
LocalInstanceID ==
    /\ do # NoProvider
    /\ last' = IF do.selfDOInstance = NoInstance
               THEN [op |-> "LocalInstanceID", panicked |-> TRUE, ret |-> <<>>, err |-> nil]
               ELSE [op |-> "LocalInstanceID", panicked |-> FALSE,
                     ret |-> Itoa(do.selfDOInstance.dropletID), err |-> nil]
    /\ UNCHANGED providerVars

GetZone ==
    /\ do # NoProvider
    /\ last' = IF do.selfDOInstance = NoInstance
               THEN [op |-> "GetZone", panicked |-> TRUE,
                     ret |-> [FailureDomain |-> <<>>, Region |-> <<>>], err |-> nil]
               ELSE [op |-> "GetZone", panicked |-> FALSE,
                     ret |-> [FailureDomain |-> do.selfDOInstance.region,
                              Region |-> do.selfDOInstance.region],
                     err |-> nil]
    /\ UNCHANGED providerVars

GetRegion ==
    /\ do # NoProvider
    /\ last' = [op |-> "GetRegion", ret |-> do.region]
    /\ UNCHANGED providerVars

InitProvider ==
    /\ volumes = [v \in VolumeIDs |-> NoVolume]
    /\ deleteLog = {}
    /\ droplets = <<>>
    /\ do = NoProvider
    /\ built = NoInstance
    /\ files = [readable |-> TRUE, names |-> <<>>]
    /\ config = <<>>
    /\ inflight = <<>>
    /\ last = NoCall

NextProvider ==
    \/ NewDigitalOcean
    \/ Clusters
    \/ Instances
    \/ LoadBalancer
    \/ Zones
    \/ Routes
    \/ LocalInstanceID
    \/ GetZone
    \/ GetRegion

SpecProvider == InitProvider /\ [][NextProvider]_vars

-----------------------------------------------------------------------------
(* Claims about the provider, checked under SpecProvider *)

\* C2: after newDigitalOcean returns successfully the provider holds the
\* self-instance resolved during construction, so that LocalInstanceID returns
\* that droplet ID in decimal and GetZone returns that region.
C2_ProviderHoldsSelfInstance ==
    /\ do # NoProvider => (built # NoInstance /\ do.selfDOInstance = built)
    /\ last.op = "LocalInstanceID" =>
          (~last.panicked /\ Atoi(last.ret) = [value |-> built.dropletID, err |-> nil])
    /\ last.op = "GetZone" =>
          (~last.panicked /\ last.ret.Region = built.region)

\* C5: newDigitalOcean returns a provider only if the account check
\* succeeded, both metadata fetches succeeded, both bodies were read without
\* error and the id parsed as a decimal integer; a failure of any of these
\* steps makes it return an error and no provider.
C5_ConstructionIsFailFast ==
    last.op = "newDigitalOcean" =>
        LET ok == /\ ~last.accountFails
                  /\ ~last.region.getFails
                  /\ ~last.id.getFails
                  /\ ~last.region.readFails
                  /\ ~last.id.readFails
                  /\ Atoi(last.id.body).err = nil
        IN  /\ (do # NoProvider) => ok
            /\ ~ok => (last.err # nil /\ do = NoProvider)

\* C8: the accessors report instances and zones as present (supported, the
\* provider itself) and load balancer, routes and clusters as absent (not
\* supported, nil), in every state of the provider.
C8_CapabilityGroups ==
    /\ last.op \in {"Instances", "Zones"} =>
          (last.supported /\ last.impl = do /\ do # NoProvider)
    /\ last.op \in {"LoadBalancer", "Routes", "Clusters"} =>
          (~last.supported /\ last.impl = NoProvider)

-----------------------------------------------------------------------------
(* Config loader: readConfig *)

ErrNoConfig == "no DigitalOcean cloud provider config file given"
ErrParse == "gcfg: parse error"
ErrNoSection == "gcfg: variable outside of a section"
ErrUnknownSection == "gcfg: invalid section"
ErrUnknownVariable == "gcfg: invalid variable"

\* Config{}
EmptyConfig == [Global |-> [ApiKey |-> <<>>, Region |-> <<>>]]

\* the lines a config stream is made of
ConfigLines ==
    { [kind |-> "blank", name |-> "", value |-> <<>>],
      [kind |-> "section", name |-> "Global", value |-> <<>>],
      [kind |-> "section", name |-> "Other", value |-> <<>>],
      [kind |-> "variable", name |-> "Region", value |-> S_nyc1],
      [kind |-> "variable", name |-> "region", value |-> S_ams3],
      [kind |-> "variable", name |-> "ApiKey", value |-> S_123456],
      [kind |-> "junk", name |-> "", value |-> <<>>] }

\* longest config stream, in lines
MaxConfigLines == 4

\* a nil io.Reader
NoReader == [isNil |-> TRUE, lines |-> <<>>]

\* the config of TestReadConfig
TestConfig ==
    << [kind |-> "blank", name |-> "", value |-> <<>>],
       [kind |-> "section", name |-> "Global", value |-> <<>>],
       [kind |-> "variable", name |-> "Region", value |-> S_nyc1],
       [kind |-> "variable", name |-> "ApiKey", value |-> S_123456] >>

\* gcfg matches section and variable names to the fields and gcfg tags of
\* Config without regard to case
FoldName(name) ==
    CASE name \in {"Global", "global"} -> "global"
      [] name \in {"Region", "region"} -> "region"
      [] name \in {"ApiKey", "apikey"} -> "apikey"
      [] OTHER -> name

RECURSIVE gcfgReadLines(_, _, _, _)
\* gcfg.ReadInto from line i on, in section sect, with cfg filled so far: it
\* stops at the first line it cannot store and leaves cfg as filled until then
gcfgReadLines(lines, i, sect, cfg) ==
    IF i > Len(lines) THEN [cfg |-> cfg, err |-> nil]
    ELSE LET l == lines[i]
         IN  CASE l.kind = "blank" -> gcfgReadLines(lines, i + 1, sect, cfg)
               [] l.kind = "junk" -> [cfg |-> cfg, err |-> ErrParse]
               [] l.kind = "section" ->
                    IF FoldName(l.name) = "global"
                    THEN gcfgReadLines(lines, i + 1, "global", cfg)
                    ELSE [cfg |-> cfg, err |-> ErrUnknownSection]
               [] l.kind = "variable" ->
                    IF sect = "" THEN [cfg |-> cfg, err |-> ErrNoSection]
                    ELSE IF FoldName(l.name) = "region"
                    THEN gcfgReadLines(lines, i + 1, sect,
                                       [cfg EXCEPT !.Global.Region = l.value])
                    ELSE IF FoldName(l.name) = "apikey"
                    THEN gcfgReadLines(lines, i + 1, sect,
                                       [cfg EXCEPT !.Global.ApiKey = l.value])
                    ELSE [cfg |-> cfg, err |-> ErrUnknownVariable]

gcfgReadInto(cfg, lines) == gcfgReadLines(lines, 1, "", cfg)

readConfigDropsError(reader) ==
    IF reader.isNil THEN [cfg |-> EmptyConfig, err |-> ErrNoConfig, parsed |-> FALSE]
    ELSE LET r == gcfgReadInto(EmptyConfig, reader.lines)
         IN  [cfg |-> r.cfg, err |-> nil, parsed |-> TRUE]

\* readConfig: its two results, and whether it called the parser
readConfig(reader) ==
    IF reader.isNil THEN [cfg |-> EmptyConfig, err |-> ErrNoConfig, parsed |-> FALSE]
    ELSE LET r == gcfgReadInto(EmptyConfig, reader.lines)
         IN  [cfg |-> r.cfg, err |-> r.err, parsed |-> TRUE]

\* the config file is written, line by line, before the provider is registered
WriteConfigLine ==
    /\ last = NoCall
    /\ Len(config) < MaxConfigLines
    /\ \E l \in ConfigLines : config' = Append(config, l)
    /\ UNCHANGED <<volumes, deleteLog, droplets, do, built, files, inflight, last>>

\* readConfig on the reader the registration hands over: nil without
\* --cloud-config, a reader of the config file otherwise
ReadConfig ==
    /\ \E reader \in {NoReader, [isNil |-> FALSE, lines |-> config]} :
           LET r == readConfig(reader)
           IN  last' = [op |-> "readConfig", config |-> reader,
                       cfg |-> r.cfg, err |-> r.err, parsed |-> r.parsed]
    /\ UNCHANGED providerVars

InitConfig == InitProvider

NextConfig ==
    \/ WriteConfigLine
    \/ ReadConfig

SpecConfig == InitConfig /\ [][NextConfig]_vars

-----------------------------------------------------------------------------
(* Claims about the config loader, checked under SpecConfig *)

\* C9: readConfig with no input stream fails with the config-missing error
\* and an empty Config without invoking the parser; with an input stream it
\* returns the parser's result and error as they are, so the [Global] section
\* with Region = nyc1 of the test yields region "nyc1" and no error.
C9_ReadConfig ==
    last.op = "readConfig" =>
        /\ last.config.isNil =>
              /\ last.err = ErrNoConfig
              /\ last.cfg = EmptyConfig
              /\ ~last.parsed
        /\ ~last.config.isNil =>
              /\ last.parsed
              /\ last.err # ErrNoConfig
              /\ [cfg |-> last.cfg, err |-> last.err] = gcfgReadInto(EmptyConfig, last.config.lines)
        /\ last.config.lines = TestConfig =>
              (last.err = nil /\ last.cfg.Global.Region = S_nyc1)

C9_Witness ==
    /\ last.op = "readConfig"
    /\ last.config.lines = TestConfig
    /\ last.cfg.Global.Region = S_nyc1
    /\ last.err = nil

-----------------------------------------------------------------------------
(* Device path discovery: GetDevicePath *)

S_DevDiskByID == <<"/", "d", "e", "v", "/", "d", "i", "s", "k", "/", "b", "y", "-", "i", "d", "/">>
S_ScsiPrefix == <<"s", "c", "s", "i", "-", "0", "D", "O", "_", "V", "o", "l", "u", "m", "e", "_">>

\* entries /dev/disk/by-id/ may hold, in the order ioutil.ReadDir sorts them
\* (by filename, byte-wise)
EntryUniverse ==
    << <<"a", "t", "a", "-", "1">>,
       <<"d", "m", "-", "n", "a", "m", "e", "-", "s", "c", "s", "i", "-", "0", "D", "O", "_", "V", "o", "l", "u", "m", "e", "_", "z", "z", "z">>,
       <<"s", "c", "s", "i", "-", "0", "D", "O", "_", "V", "o", "l", "u", "m", "e", "_">>,
       <<"s", "c", "s", "i", "-", "0", "D", "O", "_", "V", "o", "l", "u", "m", "e", "_", "a", "b", "c", "1", "2", "3">>,
       <<"s", "c", "s", "i", "-", "0", "D", "O", "_", "V", "o", "l", "u", "m", "e", "_", "a", "b", "c", "1", "2", "3", "-", "p", "a", "r", "t", "1">>,
       <<"s", "c", "s", "i", "-", "0", "D", "O", "_", "V", "o", "l", "u", "m", "e", "_", "d", "b">> >>

\* volume IDs asked about
DeviceVolumeIDs ==
    { <<"a", "b", "c", "1", "2", "3">>,
      <<"p", "v", "c", "-", "a", "b", "c", "1", "2", "3">>,
      <<"m", "y", "_", "V", "o", "l", "u", "m", "e", "_", "z", "z", "z">>,
      <<"d", "b">>,
      <<"x", "y", "z">> }

\* most entries in the directory
MaxFiles == 2

\* the entries of EntryUniverse at the indices in S, in the order of EntryUniverse
EntriesAt(S) ==
    [k \in 1..Cardinality(S) |->
        EntryUniverse[CHOOSE i \in S : Cardinality({j \in S : j < i}) = k - 1]]

Directories ==
    {[readable |-> r, names |-> EntriesAt(S)] :
        r \in BOOLEAN,
        S \in {T \in SUBSET (1..Len(EntryUniverse)) : Cardinality(T) <= MaxFiles}}

\* ioutil.ReadDir: the sorted entries, or nil with an error (which GetDevicePath drops)
ReadDir(dir) == IF dir.readable THEN dir.names ELSE <<>>

RECURSIVE CleanSlashes(_)
\* path.Clean on a path without . and .. elements: repeated slashes become
\* one, a trailing slash is dropped
CleanSlashes(p) ==
    IF Len(p) <= 1 THEN p
    ELSE IF p[Len(p)] = "/" THEN CleanSlashes(SubSeq(p, 1, Len(p) - 1))
    ELSE IF p[1] = "/" /\ p[2] = "/" THEN CleanSlashes(Tail(p))
    ELSE <<p[1]>> \o CleanSlashes(Tail(p))

\* path.Join of two elements
pathJoin(a, b) ==
    IF Len(a) = 0 THEN CleanSlashes(b)
    ELSE IF Len(b) = 0 THEN CleanSlashes(a)
    ELSE CleanSlashes(a \o <<"/">> \o b)

RECURSIVE GetDevicePathLoop(_, _, _)
\* the loop of GetDevicePath over files from index i on
GetDevicePathLoop(fs, volumeId, i) ==
    IF i > Len(fs) THEN <<>>
    ELSE IF Contains(fs[i], S_ScsiPrefix)
    THEN LET devid_prefix == SubSeq(fs[i], Len(S_ScsiPrefix) + 1, Len(fs[i]))
         IN  IF Contains(volumeId, devid_prefix)
             THEN pathJoin(S_DevDiskByID, fs[i])
             ELSE GetDevicePathLoop(fs, volumeId, i + 1)
    ELSE GetDevicePathLoop(fs, volumeId, i + 1)

GetDevicePathResult(dir, volumeId) == GetDevicePathLoop(ReadDir(dir), volumeId, 1)

GetDevicePath ==
    /\ \E volumeId \in DeviceVolumeIDs :
           last' = [op |-> "GetDevicePath", volumeId |-> volumeId,
                    ret |-> GetDevicePathResult(files, volumeId)]
    /\ UNCHANGED <<volumes, deleteLog, droplets, do, built, files, config, inflight>>

InitDevice ==
    /\ volumes = [v \in VolumeIDs |-> NoVolume]
    /\ deleteLog = {}
    /\ droplets = <<>>
    /\ do = NoProvider
    /\ built = NoInstance
    /\ files \in Directories
    /\ config = <<>>
    /\ inflight = <<>>
    /\ last = NoCall

NextDevice == GetDevicePath

SpecDevice == InitDevice /\ [][NextDevice]_vars

-----------------------------------------------------------------------------
(* Claims about GetDevicePath, checked under SpecDevice *)

\* C10: GetDevicePath(volumeID) returns /dev/disk/by-id/<entry> for a
\* directory entry named scsi-0DO_Volume_<suffix> whose suffix is a substring
\* of volumeID, and the empty string whenever no entry named by that
\* convention has a suffix occurring in volumeID (also when the directory is
\* empty or unreadable).
C10_DevicePathByConvention ==
    last.op = "GetDevicePath" =>
        LET seen == IF files.readable THEN Range(files.names) ELSE {}
            byConvention ==
                {e \in seen :
                    /\ HasPrefix(e, S_ScsiPrefix)
                    /\ Contains(last.volumeId, SubSeq(e, Len(S_ScsiPrefix) + 1, Len(e)))}
        IN  IF byConvention = {} THEN last.ret = <<>>
            ELSE \E e \in byConvention : last.ret = S_DevDiskByID \o e

-----------------------------------------------------------------------------
(* Concurrent callers of the volume adapter. The orchestrator calls the      *)
(* methods from its own goroutines and the provider takes no lock, so the    *)
(* vendor requests of different calls interleave; one vendor request is one  *)
(* step. DeleteVolume makes two requests: GetVolume (in volumeIsUsed), then  *)
(* DeleteVolume.                                                             *)

\* most concurrent callers
MaxActors == 2

\* a caller enters DeleteVolume only while fewer vendor delete requests than
\* this are on record
MaxDeleteCalls == 1

\* a caller that is not inside DeleteVolume
Idle == [pc |-> "idle", volumeID |-> "", seen |-> {}]

\* DeleteVolume up to its return or to the point before the vendor delete
\* request (volumes.go:50-57): seen is the attachment set the lookup reported
DeleteVolumeCheck(a) ==
    /\ inflight[a].pc = "idle"
    /\ Cardinality(deleteLog) < MaxDeleteCalls
    /\ \E volumeID \in VolumeIDs, getFails \in BOOLEAN :
           LET chk == volumeIsUsed(volumes, volumeID, getFails)
               call == [op |-> "DeleteVolume", volumeID |-> volumeID, actor |-> a]
           IN  IF chk.err # nil
               THEN /\ last' = call @@ [err |-> chk.err, called |-> FALSE]
                    /\ UNCHANGED inflight
               ELSE IF chk.used
               THEN /\ last' = call @@ [err |-> VolumeInUse, called |-> FALSE]
                    /\ UNCHANGED inflight
               ELSE /\ inflight' = [inflight EXCEPT ![a] =
                                       [pc |-> "checked", volumeID |-> volumeID,
                                        seen |-> StorageGetVolume(volumes, volumeID, getFails)
                                                    .volume.DropletIDs]]
                    /\ last' = [op |-> "volumeIsUsed", volumeID |-> volumeID, actor |-> a,
                                err |-> nil, called |-> FALSE]
    /\ UNCHANGED <<volumes, deleteLog, droplets, do, built, files, config>>

\* the rest of DeleteVolume (volumes.go:59-63): the vendor delete request, on
\* the storage as it is by then
DeleteVolumeCall(a) ==
    /\ inflight[a].pc = "checked"
    /\ \E deleteFails \in BOOLEAN :
           LET volumeID == inflight[a].volumeID
               del == StorageDeleteVolume(volumes, volumeID, deleteFails)
           IN  /\ deleteLog' = deleteLog \cup
                      {[volumeID |-> volumeID, seen |-> inflight[a].seen,
                        DropletIDs |-> volumes[volumeID].DropletIDs]}
               /\ volumes' = del.volumes
               /\ last' = [op |-> "DeleteVolume", volumeID |-> volumeID, actor |-> a,
                           err |-> del.err, called |-> TRUE]
    /\ inflight' = [inflight EXCEPT ![a] = Idle]
    /\ UNCHANGED <<droplets, do, built, files, config>>

\* a call that makes one vendor request, by a caller that is not inside DeleteVolume
SomeIdle == \E a \in DOMAIN inflight : inflight[a].pc = "idle"

ConcurrentCreateVolume == SomeIdle /\ CreateVolume

ConcurrentAttachVolume == SomeIdle /\ AttachVolume

ConcurrentDetachVolume == SomeIdle /\ DetachVolume

ConcurrentDeleteVolumeCheck == \E a \in DOMAIN inflight : DeleteVolumeCheck(a)

ConcurrentDeleteVolumeCall == \E a \in DOMAIN inflight : DeleteVolumeCall(a)

InitConcurrent ==
    /\ volumes = [v \in VolumeIDs |-> NoVolume]
    /\ deleteLog = {}
    /\ droplets = <<>>
    /\ do = NoProvider
    /\ built = NoInstance
    /\ files = [readable |-> TRUE, names |-> <<>>]
    /\ config = <<>>
    /\ inflight \in {[a \in 1..n |-> Idle] : n \in 1..MaxActors}
    /\ last = NoCall

NextConcurrent ==
    \/ ConcurrentCreateVolume
    \/ ConcurrentAttachVolume
    \/ ConcurrentDetachVolume
    \/ ConcurrentDeleteVolumeCheck
    \/ ConcurrentDeleteVolumeCall

SpecConcurrent == InitConcurrent /\ [][NextConcurrent]_vars

\* C11: DeleteVolume's attachment check and its vendor delete request are not
\* atomic. Every vendor delete request follows a check that reported the volume
\* unattached, and with a single caller the volume is still unattached when the
\* request is made; with concurrent callers that is no invariant: another
\* caller's AttachVolume between the check and the request (the state of
\* C11_Witness) makes DeleteVolume invoke the delete endpoint on an attached volume.
C11_DeleteChecksThenActs ==
    /\ \A e \in deleteLog : e.seen = {}
    /\ Len(inflight) = 1 => \A e \in deleteLog : e.DropletIDs = {}
    /\ \A a \in DOMAIN inflight :
           inflight[a].pc = "checked" =>
               /\ inflight[a].seen = {}
               /\ Len(inflight) = 1 =>
                      /\ volumes[inflight[a].volumeID].exists
                      /\ volumes[inflight[a].volumeID].DropletIDs = {}

\* a DeleteVolume has just invoked the delete endpoint on a volume that its
\* check saw unattached and that another caller attached in between
C11_Witness ==
    /\ Len(inflight) > 1
    /\ last.op = "DeleteVolume"
    /\ last.called
    /\ last.err = nil
    /\ \E e \in deleteLog :
           /\ e.volumeID = last.volumeID
           /\ e.seen = {}
           /\ e.DropletIDs # {}

=============================================================================
